---- MODULE Spec2Model ----
(***************************************************************************)
(* LlamaKeeper: the memory relevance-ranking and retention engine.         *)
(*                                                                         *)
(* MemoryManager (backend/app/utils/memory_manager.py) over the memories   *)
(* table (backend/app/models/database.py), the action-memory write of the  *)
(* autonomy system (backend/app/utils/character_autonomy.py), the          *)
(* in-memory scorer of BaseMemoryManager                                   *)
(* (backend/app/utils/base_memory_manager.py) and the characters API       *)
(* (backend/app/api/characters.py) over the characters table.              *)
(*                                                                         *)
(* Numbers: an importance or a score x is held as the integer 10*x         *)
(* (tenths), so 1.0 is Unit = 10 and the 0.5 context bonus is 5.           *)
(***************************************************************************)
EXTENDS Integers, Sequences, FiniteSets, TLC

VARIABLES
    memories,   \* the memories table: id -> row
    now,        \* the wall clock read by the created_at column default
    call,       \* the last MemoryManager / autonomy call and its arguments
    before,     \* the memories table as it was when that call started
    returned,   \* what the last retrieve_relevant_memories returned
    raised,     \* the exception the last call raised, "none" if it returned
    probe,      \* the memories, query context and clock handed to the scorers
    relevance,  \* the scores the two scorers gave them
    characters, \* the characters table: id -> row
    issued,     \* the memory ids create_memory has handed out so far
    evicting    \* the forget_old_memories call between its load and its deletes

vars == <<memories, now, call, before, returned, raised, probe, relevance,
          characters, issued, evicting>>

----------------------------------------------------------------------------
(* Bounds of the model *)

MaxMemories == 2    \* the largest memory id handed out under Spec
MaxRows == 3        \* the largest memory id handed out under SpecStore
MaxCharacters == 2  \* the largest character id handed out under SpecCharacters

(* Program constants, in tenths *)

Unit == 10          \* 1.0, the upper clamp of an importance
ContextBonus == 5   \* 0.5 per matching context key
DefaultImportance == 5  \* 0.5, the fallback of the emotion map and of the scorer
DecayPeriod == 30   \* the 30 days after which a memory has decayed to nothing

----------------------------------------------------------------------------
(* Inputs *)

Characters == {1, 2}
Narrated == {1}     \* characters whose memories take every input of the model
Autonomous == {2}   \* characters acted by the autonomy system

ClockReadings == {0, 1}

EmptyContext == [k \in {} |-> ""]
\* None in the place of a context dictionary (the column is nullable)
Null == [k \in {"None"} |-> "None"]
Forest == [k \in {"loc"} |-> "forest"]
Cave == [k \in {"loc"} |-> "cave"]

StoredContexts == {EmptyContext, Forest}
QueryContexts == {EmptyContext, Forest, Cave}
ImportanceInputs == {-3, 4, 15}
UpdateInputs == {-3, 15}
ContentInputs == {"Memory"}
BlankInputs == {"", "   "}
EmotionInputs == {"excited", "bored"}
ThresholdInputs == {2, 4}       \* 0.2 is the default forget_threshold
CapInputs == {0, 1, 2, 100}     \* 100 is the default max_memories
TopKInputs == {0, 1, 2, 5}      \* 5 is the default top_k

Max(a, b) == IF a >= b THEN a ELSE b
Min(a, b) == IF a <= b THEN a ELSE b

----------------------------------------------------------------------------
(* The memories table *)

Ids(table) == DOMAIN table

\* Memory.id: INTEGER PRIMARY KEY of the default SQLite database, the rowid:
\* one more than the largest id in the table.
RECURSIVE MaxOf(_)
MaxOf(S) ==
    IF S = {} THEN 0
    ELSE LET x == CHOOSE y \in S : TRUE IN Max(x, MaxOf(S \ {x}))

NewId(table) == MaxOf(Ids(table)) + 1

\* the where clause with "<=" in the place of "=="
OfCharactersUpTo(table, character_id) ==
    {i \in Ids(table) : table[i].character_id <= character_id}

\* the select without its where clause
OfAnyCharacter(table, character_id) == Ids(table)

\* select(Memory).where(Memory.character_id == character_id)
OfCharacter(table, character_id) ==
    {i \in Ids(table) : table[i].character_id = character_id}

Insert(table, row) ==
    [i \in Ids(table) \cup {row.id} |-> IF i = row.id THEN row ELSE table[i]]

Delete(table, ids) == [i \in Ids(table) \ ids |-> table[i]]

\* every order in which a query may hand back the rows of a set of ids
RECURSIVE Orders(_)
Orders(S) ==
    IF S = {} THEN {<<>>}
    ELSE UNION {{<<x>> \o rest : rest \in Orders(S \ {x})} : x \in S}

Range(f) == {f[i] : i \in DOMAIN f}

----------------------------------------------------------------------------
(* Bookkeeping of the last call *)

NoCall ==
    [op |-> "none", character_id |-> 0, name |-> "", memory_id |-> 0,
     content |-> "",
     importance |-> 0, context |-> EmptyContext, top_k |-> 0, max_memories |-> 0,
     forget_threshold |-> 0]

NoEviction ==
    [active |-> FALSE, character_id |-> 0, max_memories |-> 0,
     forget_threshold |-> 0, selected |-> {}, snapshot |-> [i \in {} |-> 0]]

NoProbe == [memory |-> <<>>, other |-> <<>>, context |-> EmptyContext, clock |-> 0]
NoRelevance == [manager |-> <<>>, base |-> <<>>]

----------------------------------------------------------------------------
(* MemoryManager.create_memory *)

\* the clamp without its lower bound
ClampAbove(x) == Min(Unit, x)

\* the clamp without its upper bound
ClampBelow(x) == Max(0, x)

Clamp(x) == Max(0, Min(Unit, x))

NewMemory(table, character_id, content, importance, context) ==
    [id |-> NewId(table), character_id |-> character_id, content |-> content,
     importance |-> importance, context |-> context, created_at |-> now]

create_memory(character_id, content, importance, context) ==
    /\ memories' = Insert(memories,
           NewMemory(memories, character_id, content, Clamp(importance), context))
    /\ call' = [NoCall EXCEPT !.op = "create_memory",
                              !.character_id = character_id,
                              !.memory_id = NewId(memories),
                              !.content = content,
                              !.importance = importance,
                              !.context = context]
    /\ before' = memories
    /\ returned' = <<>>
    /\ raised' = "none"
    /\ issued' = issued \cup {NewId(memories)}
    /\ UNCHANGED <<now, probe, relevance, characters, evicting>>

Tick ==
    /\ call.op = "none"
    /\ now + 1 \in ClockReadings
    /\ now' = now + 1
    /\ UNCHANGED <<memories, call, before, returned, raised, probe, relevance,
                 characters, issued, evicting>>

----------------------------------------------------------------------------
(* MemoryManager.update_memory_importance *)

\* an update that returns silently when the memory is missing
update_memory_importance_silent(memory_id, new_importance) ==
    /\ call' = [NoCall EXCEPT !.op = "update_memory_importance",
                              !.memory_id = memory_id,
                              !.importance = new_importance]
    /\ before' = memories
    /\ returned' = <<>>
    /\ raised' = "none"
    /\ memories' = IF memory_id \in Ids(memories)
                   THEN [memories EXCEPT
                            ![memory_id].importance = Clamp(new_importance)]
                   ELSE memories
    /\ UNCHANGED <<now, probe, relevance, characters, issued, evicting>>

\* an update that also stamps the row with the time of the update
update_memory_importance_touch(memory_id, new_importance) ==
    /\ call' = [NoCall EXCEPT !.op = "update_memory_importance",
                              !.memory_id = memory_id,
                              !.importance = new_importance]
    /\ before' = memories
    /\ returned' = <<>>
    /\ IF memory_id \notin Ids(memories)
       THEN /\ raised' = "ValueError"
            /\ UNCHANGED memories
       ELSE /\ memories' = [memories EXCEPT
                               ![memory_id].importance = Clamp(new_importance),
                               ![memory_id].created_at = now]
            /\ raised' = "none"
    /\ UNCHANGED <<now, probe, relevance, characters, issued, evicting>>

update_memory_importance(memory_id, new_importance) ==
    /\ call' = [NoCall EXCEPT !.op = "update_memory_importance",
                              !.memory_id = memory_id,
                              !.importance = new_importance]
    /\ before' = memories
    /\ returned' = <<>>
    /\ IF memory_id \notin Ids(memories)
       THEN \* session.get returns None: raise ValueError
            /\ raised' = "ValueError"
            /\ UNCHANGED memories
       ELSE /\ memories' = [memories EXCEPT
                               ![memory_id].importance = Clamp(new_importance)]
            /\ raised' = "none"
    /\ UNCHANGED <<now, probe, relevance, characters, issued, evicting>>

----------------------------------------------------------------------------
(* CharacterAutonomySystem._create_action_memory *)

emotion_importance_map ==
    [e \in {"excited", "happy", "neutral", "sad", "angry", "fearful", "confused"} |->
        CASE e = "excited" -> 8
          [] e = "happy" -> 7
          [] e = "neutral" -> 5
          [] e = "sad" -> 6
          [] e = "angry" -> 7
          [] e = "fearful" -> 7
          [] e = "confused" -> 6]

\* emotion_importance_map.get(action.get("emotional_state", "neutral"), 0.5)
ActionImportance(action) ==
    IF action.emotional_state \in DOMAIN emotion_importance_map
    THEN emotion_importance_map[action.emotional_state]
    ELSE DefaultImportance

\* json.dumps(action)
ActionJson(action) ==
    IF action.emotional_state = "excited"
    THEN "{action_type: dialogue, emotional_state: excited}"
    ELSE "{action_type: dialogue, emotional_state: bored}"

ActionContext(action) ==
    [k \in {"action_type", "emotional_state"} |->
        IF k = "action_type" THEN action.action_type ELSE action.emotional_state]

\* In character_autonomy.py db_models is app.models.schemas (line 7), so
\* db_models.Memory(...) builds a pydantic Memory, not a row of the
\* memories table: session.add refuses the unmapped object and nothing is
\* written. The call record keeps the fields of the object that was built.
_create_action_memory(character_id, action) ==
    /\ call' = [NoCall EXCEPT !.op = "_create_action_memory",
                              !.character_id = character_id,
                              !.content = ActionJson(action),
                              !.importance = ActionImportance(action),
                              !.context = ActionContext(action)]
    /\ before' = memories
    /\ returned' = <<>>
    /\ raised' = "UnmappedInstanceError"
    /\ UNCHANGED <<memories, now, probe, relevance, characters, issued, evicting>>

----------------------------------------------------------------------------
(* CharacterAutonomySystem._parse_action and generate_action               *)
(*                                                                         *)
(* A response of the language model is held with the value json.loads      *)
(* gives for its text: [type |-> the Python type, items |-> the content],  *)
(* or the type "JSONDecodeError" for a text that is not JSON. The items of *)
(* a dict are its key -> value function, those of a list its elements,     *)
(* those of a str the required keys that occur in it as substrings.        *)

json_loads(action_response) == action_response.loads

required_keys == {"action_type", "content", "emotional_state", "motivation"}

valid_action_types == {"dialogue", "movement", "internal_thought", "interaction"}

\* "key in parsed_action" on a dict, a list or a str; any other type raises
Contains(parsed_action, key) ==
    IF parsed_action.type = "dict" THEN key \in DOMAIN parsed_action.items
    ELSE key \in parsed_action.items

\* the default action of the except branch
FallbackAction(character_id, e) ==
    [k \in required_keys \cup {"character_id"} |->
        CASE k = "action_type" -> "internal_thought"
          [] k = "content" -> <<"I'm unsure what to do next.", e>>
          [] k = "emotional_state" -> "confused"
          [] k = "motivation" -> "processing complex situation"
          [] k = "character_id" -> character_id]

\* what _parse_action returns or raises; only json.JSONDecodeError and
\* ValueError are caught
_parse_action(action_response, character_id) ==
    LET parsed_action == json_loads(action_response)
    IN  IF parsed_action.type = "JSONDecodeError"
        THEN [raised |-> "none",
              action |-> FallbackAction(character_id, "JSONDecodeError")]
        ELSE IF parsed_action.type \notin {"dict", "list", "str"}
        THEN \* "key not in parsed_action": argument is not iterable
             [raised |-> "TypeError", action |-> <<>>]
        ELSE IF \E key \in required_keys : ~Contains(parsed_action, key)
        THEN [raised |-> "none",
              action |-> FallbackAction(character_id, "Missing required key")]
        ELSE IF parsed_action.type # "dict"
        THEN \* parsed_action["action_type"] on a list or a str
             [raised |-> "TypeError", action |-> <<>>]
        ELSE IF parsed_action.items["action_type"] \notin valid_action_types
        THEN [raised |-> "none",
              action |-> FallbackAction(character_id, "Invalid action type")]
        ELSE [raised |-> "none",
              action |-> [k \in DOMAIN parsed_action.items \cup {"character_id"} |->
                             IF k = "character_id" THEN character_id
                             ELSE parsed_action.items[k]]]

\* select(db_models.Character) over the pydantic Character of
\* app.models.schemas: SQLAlchemy refuses the class before any row is read
_get_character(character_id) == [raised |-> "ArgumentError"]

\* generate_action: the first step that raises ends the call; the last
\* step, _create_action_memory, raises on every action, so no call returns
\* and none writes a memory
generate_action(character_id, story_context, action_response) ==
    LET character == _get_character(character_id)
        parsed == _parse_action(action_response, character_id)
    IN  /\ call' = [NoCall EXCEPT !.op = "generate_action",
                                  !.character_id = character_id,
                                  !.context = story_context]
        /\ before' = memories
        /\ returned' = <<>>
        /\ raised' = IF character.raised # "none" THEN character.raised
                     ELSE IF parsed.raised # "none" THEN parsed.raised
                     ELSE "UnmappedInstanceError"
        /\ UNCHANGED <<memories, now, probe, relevance, characters, issued, evicting>>

----------------------------------------------------------------------------
(* MemoryManager.forget_old_memories *)

\* .order_by(Memory.importance.asc(), Memory.created_at.asc())
InForgetOrder(table, order) ==
    \A i, j \in DOMAIN order :
        i < j =>
            \/ table[order[i]].importance < table[order[j]].importance
            \/ /\ table[order[i]].importance = table[order[j]].importance
               /\ table[order[i]].created_at <= table[order[j]].created_at

\* the two conditions joined by "and"
memories_to_forget_both(table, loaded, max_memories, forget_threshold) ==
    SelectSeq(loaded,
        LAMBDA id : /\ table[id].importance < forget_threshold
                    /\ Len(loaded) > max_memories)

\* the threshold compared with "<="
memories_to_forget_inclusive(table, loaded, max_memories, forget_threshold) ==
    SelectSeq(loaded,
        LAMBDA id : \/ table[id].importance <= forget_threshold
                    \/ Len(loaded) > max_memories)

\* over the cap, the entries past the first max_memories of the list (the
\* most important ones) are taken instead of the whole list
memories_to_forget_last(table, loaded, max_memories, forget_threshold) ==
    SelectSeq(loaded, LAMBDA id : table[id].importance < forget_threshold)
        \o (IF Len(loaded) > max_memories
            THEN SubSeq(loaded, max_memories + 1, Len(loaded))
            ELSE <<>>)

\* over the cap, one call takes only the first entry of the list
memories_to_forget_one(table, loaded, max_memories, forget_threshold) ==
    SelectSeq(loaded, LAMBDA id : table[id].importance < forget_threshold)
        \o (IF Len(loaded) > max_memories THEN <<Head(loaded)>> ELSE <<>>)

\* the comprehension without its test of the cap
memories_to_forget_threshold_only(table, loaded, max_memories, forget_threshold) ==
    SelectSeq(loaded, LAMBDA id : table[id].importance < forget_threshold)

\* the comprehension of memories_to_forget over the loaded list
memories_to_forget(table, loaded, max_memories, forget_threshold) ==
    SelectSeq(loaded,
        LAMBDA id : \/ table[id].importance < forget_threshold
                    \/ Len(loaded) > max_memories)

forget_old_memories(character_id, max_memories, forget_threshold) ==
    \E loaded \in Orders(OfCharacter(memories, character_id)) :
        /\ InForgetOrder(memories, loaded)
        /\ memories' = Delete(memories,
               Range(memories_to_forget(memories, loaded, max_memories,
                                        forget_threshold)))
        /\ call' = [NoCall EXCEPT !.op = "forget_old_memories",
                                  !.character_id = character_id,
                                  !.max_memories = max_memories,
                                  !.forget_threshold = forget_threshold]
        /\ before' = memories
        /\ returned' = <<>>
        /\ raised' = "none"
        /\ UNCHANGED <<now, probe, relevance, characters, issued, evicting>>

(* forget_old_memories as the two steps other coroutines can come between: *)
(* the awaited select, after which memories_to_forget is computed from the *)
(* rows that were loaded, and the awaited deletes and commit.              *)

forget_old_memories_load(character_id, max_memories, forget_threshold) ==
    \E loaded \in Orders(OfCharacter(memories, character_id)) :
        /\ InForgetOrder(memories, loaded)
        /\ evicting' =
               [active |-> TRUE,
                character_id |-> character_id,
                max_memories |-> max_memories,
                forget_threshold |-> forget_threshold,
                selected |-> Range(memories_to_forget(memories, loaded,
                                       max_memories, forget_threshold)),
                snapshot |-> memories]
        /\ UNCHANGED <<memories, now, call, before, returned, raised, probe,
                       relevance, characters, issued>>

forget_old_memories_delete ==
    /\ memories' = Delete(memories, evicting.selected \cap Ids(memories))
    /\ call' = [NoCall EXCEPT !.op = "forget_old_memories",
                              !.character_id = evicting.character_id,
                              !.max_memories = evicting.max_memories,
                              !.forget_threshold = evicting.forget_threshold]
    /\ before' = memories
    /\ returned' = <<>>
    /\ raised' = "none"
    /\ evicting' = [evicting EXCEPT !.active = FALSE]
    /\ UNCHANGED <<now, probe, relevance, characters, issued>>

----------------------------------------------------------------------------
(* MemoryManager.retrieve_relevant_memories *)

\* a bonus for every query key the memory has, whatever its value
calculate_relevance_by_key(memory, context) ==
    Cardinality(DOMAIN context \cap DOMAIN memory.context) * ContextBonus
        + memory.importance

\* a bonus for every key of the memory's context that the query does not
\* contradict, keys the query does not have included
calculate_relevance_memory_keys(memory, context) ==
    Cardinality({key \in DOMAIN memory.context :
                    key \notin DOMAIN context
                        \/ memory.context[key] = context[key]}) * ContextBonus
        + memory.importance

\* the inner function calculate_relevance(memory), closed over the query context
calculate_relevance(memory, context) ==
    LET \* memory.context or {}
        memory_context == IF memory.context = Null THEN EmptyContext
                          ELSE memory.context
        matched == {key \in DOMAIN context :
                        /\ key \in DOMAIN memory_context
                        /\ memory_context[key] = context[key]}
    IN  Cardinality(matched) * ContextBonus + memory.importance

\* the sort without reverse=True
RECURSIVE InsertAscending(_, _)
InsertAscending(sorted, x) ==
    IF sorted = <<>> THEN <<x>>
    ELSE IF Head(sorted)[2] <= x[2]
         THEN <<Head(sorted)>> \o InsertAscending(Tail(sorted), x)
         ELSE <<x>> \o sorted

\* sorted(pairs, key=lambda x: x[1], reverse=True): Python's sort is stable,
\* so pairs with equal keys keep the order they came in.
RECURSIVE InsertDescending(_, _)
InsertDescending(sorted, x) ==
    IF sorted = <<>> THEN <<x>>
    ELSE IF Head(sorted)[2] >= x[2]
         THEN <<Head(sorted)>> \o InsertDescending(Tail(sorted), x)
         ELSE <<x>> \o sorted

\* no sort at all
Unsorted(pairs) == pairs

RECURSIVE SortedDescending(_)
SortedDescending(pairs) ==
    IF pairs = <<>> THEN <<>>
    ELSE InsertDescending(SortedDescending(SubSeq(pairs, 1, Len(pairs) - 1)),
                          pairs[Len(pairs)])

\* sorted_memories[:top_k + 1]
SliceOneMore(seq, top_k) == SubSeq(seq, 1, Min(top_k + 1, Len(seq)))

\* sorted_memories[:top_k], for top_k >= 0
Slice(seq, top_k) == SubSeq(seq, 1, Min(top_k, Len(seq)))

\* datetime.isoformat()
IsoFormat(t) == <<"iso", t>>

\* the dictionary built for one memory of the answer
MemoryView(memory) ==
    [id |-> memory.id, content |-> memory.content,
     importance |-> memory.importance, context |-> memory.context,
     created_at |-> IsoFormat(memory.created_at)]

\* the answer left in score order
KeepOrder(views) == views

\* sorted([...], key=lambda x: x['importance'], reverse=True)
SortByImportance(views) ==
    LET keyed == [i \in DOMAIN views |-> <<views[i], views[i].importance>>]
        sorted == SortedDescending(keyed)
    IN  [i \in DOMAIN sorted |-> sorted[i][1]]

\* a ranking that selects the top_k by importance instead of by score
RelevantMemoriesByImportance(table, loaded, context, top_k) ==
    Slice(SortByImportance([i \in DOMAIN loaded |-> MemoryView(table[loaded[i]])]),
          top_k)

\* the value retrieve_relevant_memories returns for the rows in loading order
RelevantMemories(table, loaded, context, top_k) ==
    LET memory_scores ==
            [i \in DOMAIN loaded |->
                <<table[loaded[i]], calculate_relevance(table[loaded[i]], context)>>]
        sorted_memories == SortedDescending(memory_scores)
        top_memories == Slice(sorted_memories, top_k)
    IN  SortByImportance([i \in DOMAIN top_memories |->
                              MemoryView(top_memories[i][1])])

\* a retrieval that drops the memories it did not return
retrieve_and_prune(character_id, context, top_k) ==
    \E loaded \in Orders(OfCharacter(memories, character_id)) :
        /\ returned' = RelevantMemories(memories, loaded, context, top_k)
        /\ memories' = Delete(memories,
               OfCharacter(memories, character_id)
                   \ {returned'[i].id : i \in DOMAIN returned'})
        /\ call' = [NoCall EXCEPT !.op = "retrieve_relevant_memories",
                                  !.character_id = character_id,
                                  !.context = context,
                                  !.top_k = top_k]
        /\ before' = memories
        /\ raised' = "none"
        /\ UNCHANGED <<now, probe, relevance, characters, issued, evicting>>

retrieve_relevant_memories(character_id, context, top_k) ==
    \E loaded \in Orders(OfCharacter(memories, character_id)) :
        /\ returned' = RelevantMemories(memories, loaded, context, top_k)
        /\ call' = [NoCall EXCEPT !.op = "retrieve_relevant_memories",
                                  !.character_id = character_id,
                                  !.context = context,
                                  !.top_k = top_k]
        /\ before' = memories
        /\ raised' = "none"
        /\ UNCHANGED <<memories, now, probe, relevance, characters, issued, evicting>>

----------------------------------------------------------------------------
(* BaseMemoryManager._calculate_memory_relevance                           *)
(*                                                                         *)
(* A memory is a dictionary that may lack any of its keys. Time is counted *)
(* in days; the score is held as the integer 10 * DecayPeriod * score, so  *)
(* that the decayed score stays exact.                                     *)

\* the characters of a content: its whitespace one by one, a run of other
\* characters as one element
Text(content) ==
    IF content = "" THEN <<>>
    ELSE IF content = "   " THEN <<" ", " ", " ">>
    ELSE <<content>>

IsSpace(ch) == ch \in {" ", "\t", "\n"}

RECURSIVE LStrip(_)
LStrip(text) ==
    IF text # <<>> /\ IsSpace(Head(text)) THEN LStrip(Tail(text)) ELSE text

RECURSIVE RStrip(_)
RStrip(text) ==
    IF text # <<>> /\ IsSpace(text[Len(text)])
    THEN RStrip(SubSeq(text, 1, Len(text) - 1))
    ELSE text

\* str.strip()
Strip(text) == RStrip(LStrip(text))

\* BaseMemoryManager._validate_memory_content, for a content that is a str
_validate_memory_content(memory_content) ==
    Len(Strip(Text(memory_content))) # 0

ScoreUnit == Unit * DecayPeriod

\* memory.get(key, default)
Get(memory, key, default) ==
    IF key \in DOMAIN memory THEN memory[key] ELSE default

\* "key in memory_context" on a memory_context that is None is a TypeError
_calculate_memory_relevance_raises(memory, context) ==
    /\ Get(memory, "context", EmptyContext) = Null
    /\ DOMAIN context # {}

\* the scorer without its final min(max(relevance_score, 0), 1)
_calculate_memory_relevance_unclamped(memory, context, clock) ==
    LET memory_context == Get(memory, "context", EmptyContext)
        matched == {key \in DOMAIN context :
                        /\ key \in DOMAIN memory_context
                        /\ memory_context[key] = context[key]}
        importance == Get(memory, "importance", DefaultImportance)
        relevance_score == Cardinality(matched) * ContextBonus + importance
    IN  IF "created_at" \in DOMAIN memory
        THEN relevance_score
                 * Max(0, DecayPeriod - (clock - memory["created_at"]))
        ELSE relevance_score * DecayPeriod

\* the scorer whose decay 1 - age / period is not floored at 0
_calculate_memory_relevance_unfloored(memory, context, clock) ==
    LET memory_context == Get(memory, "context", EmptyContext)
        matched == {key \in DOMAIN context :
                        /\ key \in DOMAIN memory_context
                        /\ memory_context[key] = context[key]}
        importance == Get(memory, "importance", DefaultImportance)
        relevance_score == Cardinality(matched) * ContextBonus + importance
        decayed ==
            IF "created_at" \in DOMAIN memory
            THEN relevance_score * (DecayPeriod - (clock - memory["created_at"]))
            ELSE relevance_score * DecayPeriod
    IN  Min(Max(decayed, 0), ScoreUnit)

\* the value returned when the call does not raise
_calculate_memory_relevance(memory, context, clock) ==
    LET memory_context == Get(memory, "context", EmptyContext)
        matched == {key \in DOMAIN context :
                        /\ key \in DOMAIN memory_context
                        /\ memory_context[key] = context[key]}
        importance == Get(memory, "importance", DefaultImportance)
        relevance_score == Cardinality(matched) * ContextBonus + importance
        decayed ==
            IF "created_at" \in DOMAIN memory
            THEN LET memory_age == clock - memory["created_at"]
                     \* max(0, 1 - age / period), times DecayPeriod
                     time_decay == Max(0, DecayPeriod - memory_age)
                 IN  relevance_score * time_decay
            ELSE relevance_score * DecayPeriod
    IN  Min(Max(decayed, 0), ScoreUnit)

\* the row MemoryManager would score for the same dictionary
AsRow(memory) ==
    [context |-> memory["context"], importance |-> memory["importance"]]

----------------------------------------------------------------------------
Init ==
    /\ memories = [i \in {} |-> 0]
    /\ now = 0
    /\ call = NoCall
    /\ before = [i \in {} |-> 0]
    /\ returned = <<>>
    /\ raised = "none"
    /\ probe = NoProbe
    /\ relevance = NoRelevance
    /\ characters = [i \in {} |-> 0]
    /\ issued = {}
    /\ evicting = NoEviction

(* The caller: one call at a time on the session; it takes the result of   *)
(* a call before it makes the next.                                        *)

Idle == call.op = "none"

Return ==
    /\ ~Idle
    /\ call' = NoCall
    /\ before' = [i \in {} |-> 0]
    /\ returned' = <<>>
    /\ raised' = "none"
    /\ UNCHANGED <<memories, now, probe, relevance, characters, issued, evicting>>

----------------------------------------------------------------------------
(* Spec: every write path, retrieval and forgetting *)

CreateMemory ==
    /\ Idle
    /\ NewId(memories) <= MaxMemories
    /\ \/ \E c \in Narrated, content \in ContentInputs,
             x \in ImportanceInputs, ctx \in StoredContexts :
              create_memory(c, content, x, ctx)
       \/ \E c \in Narrated, content \in BlankInputs :
              create_memory(c, content, DefaultImportance, EmptyContext)
       \/ \E c \in Autonomous : create_memory(c, "Memory", 8, Forest)

UpdateMemoryImportance ==
    /\ Idle
    /\ \E m \in 1..(MaxMemories + 1), x \in UpdateInputs :
           update_memory_importance(m, x)

CreateActionMemory ==
    /\ Idle
    /\ \E c \in Autonomous, e \in EmotionInputs :
           _create_action_memory(c, [action_type |-> "dialogue",
                                     emotional_state |-> e])

ForgetOldMemories ==
    /\ Idle
    /\ \E c \in Characters, M \in CapInputs, t \in ThresholdInputs :
           forget_old_memories(c, M, t)

RetrieveRelevantMemories ==
    /\ Idle
    /\ \E c \in Characters, ctx \in QueryContexts, k \in TopKInputs :
           retrieve_relevant_memories(c, ctx, k)

Next ==
    \/ CreateMemory
    \/ UpdateMemoryImportance
    \/ CreateActionMemory
    \/ ForgetOldMemories
    \/ RetrieveRelevantMemories
    \/ Return
    \/ Tick

Spec == Init /\ [][Next]_vars

----------------------------------------------------------------------------
(* The characters API (backend/app/api/characters.py). A character row is *)
(* held by its id and name; description, personality and the timestamps   *)
(* are read by no operation on memories.                                   *)

NameInputs == {"Ann", "Bob"}

\* Character.memories: the memories whose character_id is the character's id
MemoriesOf(table, character_id) ==
    {i \in Ids(table) : table[i].character_id = character_id}

\* The handler adds the row and flushes; the row outlives the request when
\* the session it was given is committed afterwards, and is rolled back
\* when the session is closed without a commit.
create_character(name, committed) ==
    /\ characters' = IF committed
                     THEN Insert(characters,
                                 [id |-> NewId(characters), name |-> name])
                     ELSE characters
    /\ call' = [NoCall EXCEPT !.op = "create_character",
                              !.character_id = NewId(characters),
                              !.name = name]
    /\ before' = memories
    /\ returned' = <<>>
    /\ raised' = "none"
    /\ UNCHANGED <<memories, now, probe, relevance, issued, evicting>>

update_character(character_id, name) ==
    /\ call' = [NoCall EXCEPT !.op = "update_character",
                              !.character_id = character_id,
                              !.name = name]
    /\ before' = memories
    /\ returned' = <<>>
    /\ IF character_id \notin Ids(characters)
       THEN /\ raised' = "HTTPException 404"
            /\ UNCHANGED characters
       ELSE /\ characters' = [characters EXCEPT ![character_id].name = name]
            /\ raised' = "none"
    /\ UNCHANGED <<memories, now, probe, relevance, issued, evicting>>

\* a deletion whose cascade takes the memories of every character
delete_character_all(character_id) ==
    /\ call' = [NoCall EXCEPT !.op = "delete_character",
                              !.character_id = character_id]
    /\ before' = memories
    /\ returned' = <<>>
    /\ IF character_id \notin Ids(characters)
       THEN /\ raised' = "HTTPException 404"
            /\ UNCHANGED <<characters, memories>>
       ELSE /\ characters' = Delete(characters, {character_id})
            /\ memories' = Delete(memories, Ids(memories))
            /\ raised' = "none"
    /\ UNCHANGED <<now, probe, relevance, issued, evicting>>

\* session.delete(existing_character): the unit of work deletes the row and,
\* by cascade="all, delete-orphan", the rows of Character.memories
delete_character(character_id) ==
    /\ call' = [NoCall EXCEPT !.op = "delete_character",
                              !.character_id = character_id]
    /\ before' = memories
    /\ returned' = <<>>
    /\ IF character_id \notin Ids(characters)
       THEN /\ raised' = "HTTPException 404"
            /\ UNCHANGED <<characters, memories>>
       ELSE /\ characters' = Delete(characters, {character_id})
            /\ memories' = Delete(memories, MemoriesOf(memories, character_id))
            /\ raised' = "none"
    /\ UNCHANGED <<now, probe, relevance, issued, evicting>>

\* session.execute(delete(Character)): one DELETE statement on the
\* characters table; no relationship cascade, no foreign key enforcement
purge_characters ==
    /\ characters' = Delete(characters, Ids(characters))
    /\ call' = [NoCall EXCEPT !.op = "purge_characters"]
    /\ before' = memories
    /\ returned' = <<>>
    /\ raised' = "none"
    /\ UNCHANGED <<memories, now, probe, relevance, issued, evicting>>

----------------------------------------------------------------------------
(* SpecCharacters: the characters API together with the memory operations *)

CreateCharacter ==
    /\ Idle
    /\ NewId(characters) <= MaxCharacters
    /\ \E committed \in BOOLEAN : create_character("Ann", committed)

UpdateCharacter ==
    /\ Idle
    /\ \E c \in 1..MaxCharacters : update_character(c, "Bob")

DeleteCharacter ==
    /\ Idle
    /\ \E c \in 1..MaxCharacters : delete_character(c)

PurgeCharacters ==
    /\ Idle
    /\ purge_characters

Memorize ==
    /\ Idle
    /\ NewId(memories) <= MaxMemories
    /\ \E c \in 1..MaxCharacters :
           create_memory(c, "Memory", 4, EmptyContext)

Reweigh ==
    /\ Idle
    /\ \E m \in 1..MaxMemories : update_memory_importance(m, 15)

Consult ==
    /\ Idle
    /\ \E c \in 1..MaxCharacters : retrieve_relevant_memories(c, EmptyContext, 1)

Evict ==
    /\ Idle
    /\ \E c \in 1..MaxCharacters : forget_old_memories(c, 0, 2)

Continue == Return

NextCharacters ==
    \/ CreateCharacter
    \/ UpdateCharacter
    \/ DeleteCharacter
    \/ PurgeCharacters
    \/ Memorize
    \/ Reweigh
    \/ Consult
    \/ Evict
    \/ Continue

SpecCharacters == Init /\ [][NextCharacters]_vars

----------------------------------------------------------------------------
(* SpecAutonomy: _parse_action and generate_action on drawn responses      *)

ActionTypeInputs == valid_action_types \cup {"sleep"}
EmotionalStateInputs == {"excited", "confused", "bored"}
MissingKeyInputs == {"none", "action_type", "motivation"}

\* the object of a response, without the key that is left out
ActionObject(action_type, emotional_state, missing) ==
    [k \in required_keys \ {missing} |->
        CASE k = "action_type" -> action_type
          [] k = "content" -> "I walk north."
          [] k = "emotional_state" -> emotional_state
          [] k = "motivation" -> "curiosity"]

Responses ==
    {[text |-> "object",
      loads |-> [type |-> "dict", items |-> ActionObject(a, e, m)]] :
        a \in ActionTypeInputs, e \in EmotionalStateInputs,
        m \in MissingKeyInputs}
    \cup {[text |-> "[]", loads |-> [type |-> "list", items |-> {}]],
          [text |-> "[action_type, content, emotional_state, motivation]",
           loads |-> [type |-> "list", items |-> required_keys]],
          [text |-> "hello", loads |-> [type |-> "str", items |-> {}]],
          [text |-> "my action_type, content, emotional_state, motivation",
           loads |-> [type |-> "str", items |-> required_keys]],
          [text |-> "42", loads |-> [type |-> "int", items |-> {}]],
          [text |-> "null", loads |-> [type |-> "NoneType", items |-> {}]],
          [text |-> "I walk north.",
           loads |-> [type |-> "JSONDecodeError", items |-> {}]]}

InitAutonomy ==
    /\ memories = [i \in {} |-> 0]
    /\ now = 0
    /\ call = NoCall
    /\ before = [i \in {} |-> 0]
    /\ returned = <<>>
    /\ raised = "none"
    /\ probe \in {[response |-> r, character_id |-> c] :
                      r \in Responses, c \in Characters}
    /\ relevance = NoRelevance
    /\ characters = [i \in {1} |-> [id |-> 1, name |-> "Ann"]]
    /\ issued = {}
    /\ evicting = NoEviction

ParseAction ==
    /\ Idle
    /\ LET parsed == _parse_action(probe.response, probe.character_id)
       IN  /\ call' = [NoCall EXCEPT !.op = "_parse_action",
                                     !.character_id = probe.character_id]
           /\ before' = memories
           /\ returned' = IF parsed.raised = "none" THEN <<parsed.action>>
                          ELSE <<>>
           /\ raised' = parsed.raised
    /\ UNCHANGED <<memories, now, probe, relevance, characters, issued, evicting>>

GenerateAction ==
    /\ Idle
    /\ \E story_context \in {Forest} :
           generate_action(probe.character_id, story_context, probe.response)

NextAutonomy ==
    \/ ParseAction
    \/ GenerateAction

SpecAutonomy == InitAutonomy /\ [][NextAutonomy]_vars

----------------------------------------------------------------------------
(* SpecRace: one forget_old_memories of character 1 at a time, whose two   *)
(* steps create_memory and update_memory_importance calls of other         *)
(* coroutines may come between                                             *)

RaceCapInputs == {1, 100}

ForgetLoad ==
    /\ Idle
    /\ ~evicting.active
    /\ \E M \in RaceCapInputs, t \in ThresholdInputs :
           forget_old_memories_load(1, M, t)

ForgetDelete ==
    /\ Idle
    /\ evicting.active
    /\ forget_old_memories_delete

RacingCreate ==
    /\ Idle
    /\ NewId(memories) <= MaxMemories
    /\ \/ \E x \in ImportanceInputs : create_memory(1, "Memory", x, EmptyContext)
       \/ create_memory(2, "Memory", -3, EmptyContext)

RacingUpdate ==
    /\ Idle
    /\ \E m \in 1..MaxMemories, x \in UpdateInputs :
           update_memory_importance(m, x)

Finish == Return

NextRace ==
    \/ ForgetLoad
    \/ ForgetDelete
    \/ RacingCreate
    \/ RacingUpdate
    \/ Finish

SpecRace == Init /\ [][NextRace]_vars

----------------------------------------------------------------------------
(* SpecStore: ranking and eviction of the memories of character 1 over     *)
(* tables of up to MaxRows memories written through create_memory          *)

Remember ==
    /\ Idle
    /\ NewId(memories) <= MaxRows
    /\ \/ \E x \in ImportanceInputs, ctx \in StoredContexts :
              create_memory(1, "Memory", x, ctx)
       \/ create_memory(2, "Memory", 4, Forest)

Recall ==
    /\ Idle
    /\ \E ctx \in QueryContexts, k \in TopKInputs :
           retrieve_relevant_memories(1, ctx, k)

Forget ==
    /\ Idle
    /\ \E M \in CapInputs, t \in ThresholdInputs :
           forget_old_memories(1, M, t)

Elapse == Tick

Resume == Return

NextStore ==
    \/ Remember
    \/ Recall
    \/ Forget
    \/ Resume
    \/ Elapse

SpecStore == Init /\ [][NextStore]_vars

----------------------------------------------------------------------------
(* SpecScore: the two scorers on pairs of memories that differ only in     *)
(* their stored context                                                    *)

ForestExcited ==
    [k \in {"loc", "mood"} |-> IF k = "loc" THEN "forest" ELSE "excited"]
CaveCalm ==
    [k \in {"loc", "mood"} |-> IF k = "loc" THEN "cave" ELSE "calm"]

ProbeContexts == {EmptyContext, Forest, Cave, ForestExcited, CaveCalm}
ProbeImportances == {-3, 0, 4, 5, 10}
ProbeClock == 40
ProbeCreated == {0, 10, 25, 40, 50}     \* ages 40, 30, 15, 0 and -10 days

MemoryDict(context, importance, created) ==
    [k \in {"context", "importance", "created_at"} |->
        CASE k = "context" -> context
          [] k = "importance" -> importance
          [] k = "created_at" -> created]

Undated(memory) == [k \in DOMAIN memory \ {"created_at"} |-> memory[k]]

Probes ==
    LET dated ==
            {[memory |-> MemoryDict(c1, x, t), other |-> MemoryDict(c2, x, t),
              context |-> q, clock |-> ProbeClock] :
                c1 \in ProbeContexts, c2 \in ProbeContexts, x \in ProbeImportances,
                t \in ProbeCreated, q \in ProbeContexts}
        nulled ==
            {[memory |-> MemoryDict(Null, x, t), other |-> MemoryDict(Null, x, t),
              context |-> q, clock |-> ProbeClock] :
                x \in ProbeImportances, t \in ProbeCreated, q \in ProbeContexts}
    IN  (dated \cup nulled)
            \cup {[p EXCEPT !.memory = Undated(p.memory),
                            !.other = Undated(p.other)] : p \in dated \cup nulled}

InitScore ==
    /\ memories = [i \in {} |-> 0]
    /\ now = 0
    /\ call = NoCall
    /\ before = [i \in {} |-> 0]
    /\ returned = <<>>
    /\ raised = "none"
    /\ probe \in Probes
    /\ relevance = NoRelevance
    /\ characters = [i \in {} |-> 0]
    /\ issued = {}
    /\ evicting = NoEviction

Score ==
    /\ relevance = NoRelevance
    /\ relevance' =
           [manager |-> <<calculate_relevance(AsRow(probe.memory), probe.context),
                          calculate_relevance(AsRow(probe.other), probe.context)>>,
            base |-> IF \/ _calculate_memory_relevance_raises(probe.memory,
                                                              probe.context)
                        \/ _calculate_memory_relevance_raises(probe.other,
                                                              probe.context)
                     THEN <<>>
                     ELSE <<_calculate_memory_relevance(probe.memory,
                                  probe.context, probe.clock),
                            _calculate_memory_relevance(probe.other,
                                  probe.context, probe.clock)>>]
    /\ raised' = IF \/ _calculate_memory_relevance_raises(probe.memory,
                                                          probe.context)
                    \/ _calculate_memory_relevance_raises(probe.other,
                                                          probe.context)
                 THEN "TypeError"
                 ELSE "none"
    /\ UNCHANGED <<memories, now, call, before, returned, probe, characters,
                   issued, evicting>>

NextScore == Score

SpecScore == InitScore /\ [][NextScore]_vars

----------------------------------------------------------------------------
(* Properties *)

Forgot == call.op = "forget_old_memories"
Retrieved == call.op = "retrieve_relevant_memories"

\* the memories of the character of the last call, before and after it
Held == OfCharacter(before, call.character_id)
Kept == OfCharacter(memories, call.character_id)

\* the memories of the character that were at or above the threshold
Qualified == {i \in Held : before[i].importance >= call.forget_threshold}

\* the composite score of a returned entry under the query of the last call
ScoreOf(view) == calculate_relevance(view, call.context)

\* C1: after forget_old_memories(C, M, t) no memory of C with importance
\* below t remains and at most M memories of C remain.
EvictionPostcondition ==
    Forgot =>
        /\ \A i \in Kept : memories[i].importance >= call.forget_threshold
        /\ Cardinality(Kept) <= call.max_memories

\* C1 witness: a forgetting call that removed a memory below the threshold
\* and left others of the character in place.
EvictionWitness ==
    /\ Forgot
    /\ \E i \in Held : before[i].importance < call.forget_threshold
    /\ Kept # {}

\* C2: after forget_old_memories(C, M, t) exactly min(M, q) memories of C
\* remain, q being the number of memories of C with importance >= t before.
EvictionKeepsUpToCap ==
    Forgot => Cardinality(Kept) = Min(call.max_memories, Cardinality(Qualified))

\* C3: when C holds at most max_memories memories, all of importance at or
\* above the threshold, forget_old_memories leaves the table as it was.
NoEvictionWithinBudget ==
    (/\ Forgot
     /\ Cardinality(Held) <= call.max_memories
     /\ \A i \in Held : before[i].importance >= call.forget_threshold)
        => memories = before

\* C3 witness: a forgetting call on a character within its cap that holds a
\* memory whose importance equals the threshold.
NoEvictionWitness ==
    /\ Forgot
    /\ Cardinality(Held) <= call.max_memories
    /\ \A i \in Held : before[i].importance >= call.forget_threshold
    /\ \E i \in Held : before[i].importance = call.forget_threshold
    /\ Cardinality(Held) >= 2

\* C4: retrieve_relevant_memories with top_k = K >= 0 on a character of n
\* memories returns exactly min(K, n) entries.
RetrieveCount ==
    Retrieved => Len(returned) = Min(call.top_k, Cardinality(Held))

\* C4 witness: a retrieval of a character with three memories cut to top_k = 2.
RetrieveCountWitness ==
    /\ Retrieved
    /\ call.top_k = 2
    /\ Cardinality(Held) = 3
    /\ Len(returned) = 2

\* C5: of two memories of a character with the same stored context and the
\* same creation time, the more important one scores at least as high and
\* is never ranked after the other; alone with top_k = 1 it is the result.
MoreImportantRanksFirst ==
    Retrieved =>
        \A a, b \in Held :
            (/\ before[a].context = before[b].context
             /\ before[a].created_at = before[b].created_at
             /\ before[a].importance > before[b].importance)
            => /\ calculate_relevance(before[a], call.context)
                    >= calculate_relevance(before[b], call.context)
               /\ \A j \in DOMAIN returned :
                      returned[j].id = b =>
                          \E i \in 1..(j - 1) : returned[i].id = a
               /\ (call.top_k = 1 /\ Held = {a, b})
                      => returned = <<MemoryView(before[a])>>

\* C5 witness: two memories with the same matching context and creation
\* time, the later-created one more important and the single result.
MoreImportantWitness ==
    /\ Retrieved
    /\ call.top_k = 1
    /\ call.context = Forest
    /\ \E a, b \in Held :
          /\ Held = {a, b}
          /\ a > b
          /\ before[a].context = Forest
          /\ before[b].context = Forest
          /\ before[a].created_at = before[b].created_at
          /\ before[a].importance > before[b].importance
          /\ returned = <<MemoryView(before[a])>>

\* C6 (as stated): a memory matching every key of the query context scores
\* strictly higher than an otherwise identical memory matching none, under
\* both scorers and for every query context, importance and age.
FullMatch(memory, context) ==
    \A key \in DOMAIN context :
        key \in DOMAIN memory["context"] /\ memory["context"][key] = context[key]

NoMatch(memory, context) ==
    \A key \in DOMAIN context :
        ~(key \in DOMAIN memory["context"] /\ memory["context"][key] = context[key])

Scored == relevance # NoRelevance

Fresh(memory, clock) ==
    "created_at" \in DOMAIN memory => clock - memory["created_at"] < DecayPeriod

ReturnedByImportance ==
    Retrieved =>
        \A i, j \in DOMAIN returned :
            i < j => returned[i].importance >= returned[j].importance

\* C7 witness: an answer in which a more important entry precedes one with
\* the higher composite score.
ReturnedByImportanceWitness ==
    /\ Retrieved
    /\ \E i, j \in DOMAIN returned :
          /\ i < j
          /\ returned[i].importance > returned[j].importance
          /\ ScoreOf(returned[i]) < ScoreOf(returned[j])

\* C8 (as stated): in the returned sequence every entry's composite score is
\* greater than or equal to the score of every entry after it.
ReturnedByScore ==
    Retrieved =>
        \A i, j \in DOMAIN returned :
            i < j => ScoreOf(returned[i]) >= ScoreOf(returned[j])

\* C8 (amended): among returned entries of equal importance every entry's
\* composite score is greater than or equal to the score of every entry
\* after it; the sequence as a whole is ordered by importance.
ReturnedByScoreWithinImportance ==
    Retrieved =>
        \A i, j \in DOMAIN returned :
            (i < j /\ returned[i].importance = returned[j].importance)
                => ScoreOf(returned[i]) >= ScoreOf(returned[j])

\* C8 witness: two returned entries of equal importance, the one with the
\* strictly higher score first although it was created later.
ReturnedByScoreWitness ==
    /\ Retrieved
    /\ \E i, j \in DOMAIN returned :
          /\ i < j
          /\ returned[i].importance = returned[j].importance
          /\ ScoreOf(returned[i]) > ScoreOf(returned[j])
          /\ returned[i].id > returned[j].id

\* C9: retrieve_relevant_memories leaves the table as it was: the same
\* memories with the same fields, none deleted.
RetrieveReadOnly == Retrieved => memories = before

\* C9 witness: a retrieval that left out a memory of the character.
RetrieveReadOnlyWitness ==
    /\ Retrieved
    /\ Len(returned) = 1
    /\ Cardinality(Held) = 2

\* C10: every stored memory has importance in [0, 1], whatever the writes
\* through create_memory, update_memory_importance and the action memory.
ImportanceInRange ==
    \A i \in Ids(memories) :
        memories[i].importance >= 0 /\ memories[i].importance <= Unit

\* C10 witness: an action memory beside a memory whose importance was
\* updated with a value below 0.
ImportanceInRangeWitness ==
    /\ call.op = "update_memory_importance"
    /\ raised = "none"
    /\ call.importance < 0
    /\ memories[call.memory_id].importance = 0
    /\ \E i \in Ids(memories) : memories[i].content # "Memory"

Created == call.op = "create_memory"
Updated == call.op = "update_memory_importance"

\* C11: create_memory and update_memory_importance reject no importance x
\* and store min(1, max(0, x)): 1.0 for x > 1, 0.0 for x < 0, x otherwise.
ImportanceStoredClamped ==
    /\ Created => raised = "none"
    /\ (Updated /\ call.memory_id \in Ids(before)) => raised = "none"
    /\ ((Created \/ Updated) /\ raised = "none") =>
           memories[call.memory_id].importance =
               IF call.importance > Unit THEN Unit
               ELSE IF call.importance < 0 THEN 0
               ELSE call.importance

\* C11 witness: an update with an importance above 1 that stored 1.0 over
\* a smaller value.
ImportanceStoredClampedWitness ==
    /\ Updated
    /\ raised = "none"
    /\ call.importance > Unit
    /\ before[call.memory_id].importance < Unit
    /\ memories[call.memory_id].importance = Unit

\* C13: update_memory_importance on an id that is not in the table raises
\* the not-found error and leaves the table as it was.
UpdateOfMissingRaises ==
    (Updated /\ call.memory_id \notin Ids(before))
        => raised = "ValueError" /\ memories = before

\* C13 witness: an update of a missing id on a table that holds memories.
UpdateOfMissingWitness ==
    /\ Updated
    /\ call.memory_id \notin Ids(before)
    /\ Ids(before) # {}
    /\ raised = "ValueError"

\* C14: a successful update_memory_importance(m, v) changes the importance
\* of m and nothing else: no other field of m, no other memory.
UpdateChangesImportanceOnly ==
    (Updated /\ raised = "none") =>
        /\ Ids(memories) = Ids(before)
        /\ \A i \in Ids(before) : i # call.memory_id => memories[i] = before[i]
        /\ \A f \in {"id", "character_id", "content", "context", "created_at"} :
               memories[call.memory_id][f] = before[call.memory_id][f]

\* C14 witness: a successful update, made after the clock moved on, that
\* changed the importance of one of two memories.
UpdateChangesImportanceWitness ==
    /\ Updated
    /\ raised = "none"
    /\ Cardinality(Ids(before)) = 2
    /\ memories[call.memory_id].importance # before[call.memory_id].importance
    /\ now > before[call.memory_id].created_at

\* C15: for a character without memories retrieve_relevant_memories
\* returns the empty sequence and forget_old_memories deletes nothing, and
\* neither raises.
NothingForCharacterWithoutMemories ==
    ((Retrieved \/ Forgot)
        /\ \A i \in Ids(before) : before[i].character_id # call.character_id) =>
        /\ raised = "none"
        /\ memories = before
        /\ returned = <<>>

\* C15 witness: a retrieval with top_k > 0 and a forgetting call with cap 0
\* for a character without memories while another character holds some.
NothingForCharacterWitness ==
    /\ \A i \in Ids(before) : before[i].character_id # call.character_id
    /\ Ids(before) # {}
    /\ \/ Retrieved /\ call.top_k > 0
       \/ Forgot /\ call.max_memories = 0

\* C20: retrieve_relevant_memories selects by composite score: no memory of
\* the character left out of the answer scores higher than one in it.
SelectedByScore ==
    Retrieved =>
        \A o \in Held, j \in DOMAIN returned :
            o \notin {returned[i].id : i \in DOMAIN returned}
                => calculate_relevance(before[o], call.context)
                       <= ScoreOf(returned[j])

\* C20 witness: a memory left out of the answer although it is more
\* important than one that was returned.
SelectedByScoreWitness ==
    /\ Retrieved
    /\ \E o \in Held, j \in DOMAIN returned :
          /\ o \notin {returned[i].id : i \in DOMAIN returned}
          /\ before[o].importance > returned[j].importance
          /\ calculate_relevance(before[o], call.context) < ScoreOf(returned[j])

\* C12: create_memory with a content that is empty or only whitespace
\* fails with InvalidMemoryContent and leaves the table as it was.
BlankContentRejected ==
    (Created /\ ~_validate_memory_content(call.content))
        => raised = "InvalidMemoryContent" /\ memories = before

\* C19: relevance scoring never raises, whatever the shape of the memory
\* and of the query context: a context that is absent, null or lacks a key
\* and an absent created_at are scored as non-matches.
ScoringNeverRaises ==
    Scored =>
        /\ raised = "none"
        /\ Len(relevance.manager) = 2
        /\ Len(relevance.base) = 2

\* C16: a stored memory disappears only as the effect of
\* forget_old_memories or of the bulk purge; no other operation destroys one.
DestroyedOnlyByForgetOrPurge ==
    [][\A i \in Ids(memories) \ Ids(memories') :
           call'.op \in {"forget_old_memories", "purge_characters"}]_vars

\* C16 (amended): a stored memory disappears only as the effect of
\* forget_old_memories on its character, of the bulk purge, or of
\* delete_character on its owning character.
DestroyedOnlyByForgetPurgeOrOwnerDeletion ==
    [][\A i \in Ids(memories) \ Ids(memories') :
           \/ call'.op = "purge_characters"
           \/ /\ call'.op \in {"forget_old_memories", "delete_character"}
              /\ memories[i].character_id = call'.character_id]_vars

\* C16 witness: a delete_character that destroyed the memory of the deleted
\* character and left the memory of another character in the table.
DestroyedByOwnerDeletionWitness ==
    /\ call.op = "delete_character"
    /\ raised = "none"
    /\ Ids(before) \ Ids(memories) # {}
    /\ Ids(memories) # {}

\* C17: in every reachable state every stored memory has an owning
\* character: its character_id is the id of a character in the table.
EveryMemoryHasOwner ==
    \A i \in Ids(memories) : memories[i].character_id \in Ids(characters)

\* C18: memory ids are never reused: the id create_memory assigns differs
\* from every id assigned before, evicted memories included.
IdsNeverReused ==
    [][\A i \in Ids(memories') \ Ids(memories) : i \notin issued]_vars

ReturnedIds == {returned[i].id : i \in DOMAIN returned}

\* C21: of two memories of the character with exactly equal composite
\* scores, the more important one is ranked first before the cut to top_k:
\* when only one of them is returned it is the more important one, whatever
\* the order in which the rows were loaded.
TieBrokenByImportance ==
    Retrieved =>
        \A a, b \in Held :
            (/\ calculate_relevance(before[a], call.context)
                    = calculate_relevance(before[b], call.context)
             /\ before[a].importance > before[b].importance
             /\ b \in ReturnedIds)
                => a \in ReturnedIds

\* the number of query keys the memory's context holds with an equal value
Matches(memory, context) ==
    Cardinality({key \in DOMAIN context :
                    /\ key \in DOMAIN memory["context"]
                    /\ memory["context"][key] = context[key]})

\* C22: before decay the score of a memory is 0.5 per query key that its
\* context holds with an equal value, plus its importance; keys of the
\* memory alone and query keys with another value add nothing. Under the
\* base scorer the raw score is seen through the final clamp on a memory
\* that has no creation time.
RawScoreFormula ==
    Scored =>
        /\ relevance.manager[1] =
               ContextBonus * Matches(probe.memory, probe.context)
                   + probe.memory["importance"]
        /\ relevance.manager[2] =
               ContextBonus * Matches(probe.other, probe.context)
                   + probe.other["importance"]
        /\ (Len(relevance.base) = 2 /\ "created_at" \notin DOMAIN probe.memory)
               => relevance.base[1] =
                      Max(0, Min(ScoreUnit,
                          DecayPeriod *
                              (ContextBonus * Matches(probe.memory, probe.context)
                                   + probe.memory["importance"])))

\* C22 witness: a memory with a key the query lacks scored one match, next
\* to a memory whose only key has another value and scored none.
RawScoreWitness ==
    /\ Scored
    /\ probe.context = Forest
    /\ probe.memory["context"] = ForestExcited
    /\ probe.other["context"] = Cave
    /\ "created_at" \notin DOMAIN probe.memory
    /\ probe.memory["importance"] = 4
    /\ relevance.manager = <<9, 4>>
    /\ relevance.base[1] = 9 * DecayPeriod

BaseReturned == Scored /\ Len(relevance.base) = 2

\* C23: BaseMemoryManager._calculate_memory_relevance returns a value in
\* [0, 1] whatever the matches, the importance and the age, a creation time
\* in the future included.
BaseScoreInUnitRange ==
    BaseReturned =>
        \A i \in 1..2 : 0 <= relevance.base[i] /\ relevance.base[i] <= ScoreUnit

\* C23 witness: a memory created in the future, of importance 1.0 and with
\* two matching keys, scored exactly 1.
BaseScoreInUnitRangeWitness ==
    /\ BaseReturned
    /\ "created_at" \in DOMAIN probe.memory
    /\ probe.memory["created_at"] > probe.clock
    /\ probe.memory["importance"] = Unit
    /\ Matches(probe.memory, probe.context) = 2
    /\ relevance.base[1] = ScoreUnit

\* the raw score of a probed memory: 0.5 per match plus the importance
RawScore(memory, context) ==
    ContextBonus * Matches(memory, context) + memory["importance"]

FutureMemoryUndecayed ==
    (/\ BaseReturned
     /\ "created_at" \in DOMAIN probe.memory
     /\ probe.memory["created_at"] > probe.clock)
        => relevance.base[1] =
               Max(0, Min(ScoreUnit,
                   RawScore(probe.memory, probe.context) * DecayPeriod))

IsolatedPerCharacter ==
    /\ Forgot =>
           \A i \in Ids(before) :
               before[i].character_id # call.character_id
                   => i \in Ids(memories) /\ memories[i] = before[i]
    /\ Retrieved =>
           \A j \in DOMAIN returned :
               /\ returned[j].id \in Ids(before)
               /\ before[returned[j].id].character_id = call.character_id

\* C29 witness: a forgetting call that deleted a memory of its character
\* while another character, of a larger id, kept one of lower importance
\* than the threshold.
IsolatedPerCharacterWitness ==
    /\ Forgot
    /\ \E i \in Ids(before) : i \notin Ids(memories)
    /\ \E i \in Ids(memories) :
          /\ memories[i].character_id > call.character_id
          /\ memories[i].importance < call.forget_threshold

\* C30: forget_old_memories is idempotent: called again with the same
\* arguments right after a call, it finds nothing to delete, whatever the
\* order in which it loads the memories that are left.
ForgetIdempotent ==
    Forgot =>
        \A loaded \in Orders(OfCharacter(memories, call.character_id)) :
            InForgetOrder(memories, loaded) =>
                memories_to_forget(memories, loaded, call.max_memories,
                                   call.forget_threshold) = <<>>

\* C30 witness: a forgetting call that deleted a memory below the threshold
\* and left memories for a second call to look at.
ForgetIdempotentWitness ==
    /\ Forgot
    /\ Held \ Kept # {}
    /\ Cardinality(Kept) = 2

\* the response is an action object with every required key and a valid
\* action_type
ValidResponse(response) ==
    /\ response.loads.type = "dict"
    /\ required_keys \subseteq DOMAIN response.loads.items
    /\ response.loads.items["action_type"] \in valid_action_types

\* C28: whatever text the language model returns, generate_action yields a
\* well-formed action and raises nothing: the action has the keys
\* action_type, content, emotional_state, motivation and character_id and a
\* valid action_type, and for a response that is not a valid action object
\* it is the fallback internal_thought action, as _parse_action builds it.
ActionAlwaysWellFormed ==
    call.op \in {"generate_action", "_parse_action"} =>
        /\ raised = "none"
        /\ Len(returned) = 1
        /\ required_keys \cup {"character_id"} \subseteq DOMAIN returned[1]
        /\ returned[1]["action_type"] \in valid_action_types
        /\ returned[1]["character_id"] = call.character_id
        /\ ~ValidResponse(probe.response) =>
               /\ returned[1]["action_type"] = "internal_thought"
               /\ returned[1]["emotional_state"] = "confused"

\* the rows of a character in a table
RowsOf(table, character_id) ==
    [i \in OfCharacter(table, character_id) |-> table[i]]

\* no write to the character of the eviction came between its load and its
\* deletes
Serialized ==
    RowsOf(before, call.character_id)
        = RowsOf(evicting.snapshot, call.character_id)

\* the eviction postcondition on the table the call left
PostconditionHolds ==
    /\ \A i \in OfCharacter(memories, call.character_id) :
           memories[i].importance >= call.forget_threshold
    /\ Cardinality(OfCharacter(memories, call.character_id))
           <= call.max_memories

\* C27: with at most one writer active per character, the eviction
\* postcondition holds when forget_old_memories(C, M, t) completes; a
\* create_memory or update_memory_importance for C that comes between its
\* load and its deletes can leave a memory below t or more than M memories
\* (the witness).
SerializedEvictionConsistent ==
    (Forgot /\ Serialized) => PostconditionHolds

\* C27 witness: a forget_old_memories that completed after a write to its
\* character came between its load and its deletes, and left a memory
\* below the threshold or more memories than the cap.
RacingEvictionInconsistent ==
    /\ Forgot
    /\ ~Serialized
    /\ ~PostconditionHolds

====
